---- MODULE Spec2Model ----
(***************************************************************************)
(* GSE2/GSE1 bindings of obspy (obspy/gse2/core.py): format detection,     *)
(* the container read loop of readGSE2/readGSE1 and the container write    *)
(* loop of writeGSE2.  The block codec the bindings call (libgse2,         *)
(* libgse1) is modelled from the design document: a block is one header    *)
(* line, one payload line per sample and one checksum line.                *)
(***************************************************************************)
EXTENDS Integers, Sequences, FiniteSets, TLC

\* ------------------------------------------------------------- bounds
\* Blocks per container file.
MaxBlocks == 2
\* Traces per stream handed to writeGSE2.
MaxTraces == 2
\* Width in bits of the model's int32 (scaled down from 32).
SampleBits == 4

\* ------------------------------------------------------------- numbers
RECURSIVE Pow2(_)
Pow2(n) == IF n = 0 THEN 1 ELSE 2 * Pow2(n - 1)

IntMax == Pow2(SampleBits - 1) - 1
IntMin == 0 - Pow2(SampleBits - 1)

InInt32(v) == IntMin <= v /\ v <= IntMax

\* Two's complement wrap of v into the int32 range.
Wrap32(v) == ((v - IntMin) % Pow2(SampleBits)) + IntMin

Abs(v) == IF v < 0 THEN 0 - v ELSE v

RECURSIVE SumSeq(_)
SumSeq(s) == IF s = <<>> THEN 0 ELSE s[1] + SumSeq(Tail(s))

\* ------------------------------------------------------------- block codec
\* Modulus of the checksum line.
ChkModulus == 100000000

\* Checksum Engine: compute(samples).
Checksum(samples) == Abs(SumSeq(samples)) % ChkModulus

\* Sample Codec, encode: the payload holds the first differences.
Compress(data) ==
    [i \in 1..Len(data) |-> IF i = 1 THEN data[1] ELSE data[i] - data[i - 1]]

\* Sample Codec, decode: the running sum of the payload.
RECURSIVE Uncompress(_)
Uncompress(enc) ==
    IF enc = <<>> THEN <<>>
    ELSE LET front == Uncompress(SubSeq(enc, 1, Len(enc) - 1))
         IN  Append(front,
                    (IF front = <<>> THEN 0 ELSE front[Len(front)]) + enc[Len(enc)])

\* The header tags a reader of the variant accepts.
WidTags(fmt) == IF fmt = "GSE2" THEN {"WID2"} ELSE {"WID1", "XW01"}

\* The tag of the checksum line that closes a block opened by tag wid.
ChkTag(wid) == IF wid = "WID2" THEN "CHK2" ELSE "CHK1"

\* On-disk layout of one block: header line, payload lines, checksum line.
BlockLines(wid, data, chk) ==
    <<[tag |-> wid, n |-> Len(data)]>>
    \o [i \in 1..Len(data) |-> [tag |-> "DAT", n |-> Compress(data)[i]]]
    \o <<[tag |-> ChkTag(wid), n |-> chk]>>

NoHeader == [wid |-> "", npts |-> 0]

Outcome(o, p, h, d) == [outcome |-> o, pos |-> p, header |-> h, data |-> d]

\* Block Framer, read next block from position p (1-based line index).
LibRead(f, p, fmt, verify_chksum) ==
    IF p > Len(f) THEN Outcome("EOFError", p, NoHeader, <<>>)
    ELSE IF f[p].tag \notin WidTags(fmt)
    THEN Outcome("FormatError", p, NoHeader, <<>>)
    ELSE
      LET n == f[p].n
          h == [wid |-> f[p].tag, npts |-> n]
          framed == \A i \in 1..n : p + i <= Len(f) /\ f[p + i].tag = "DAT"
          q == p + n + 1
      IN  IF ~framed THEN Outcome("TruncationError", Len(f) + 1, h, <<>>)
          ELSE IF q > Len(f) \/ f[q].tag # ChkTag(f[p].tag)
          THEN Outcome("TruncationError", Len(f) + 1, h, <<>>)
          ELSE
            LET data == Uncompress([i \in 1..n |-> f[p + i].n])
            IN  IF verify_chksum /\ f[q].n # Checksum(data)
                THEN Outcome("ChecksumMismatchError", q + 1, h, data)
                ELSE Outcome("Complete", q + 1, h, data)

\* Block Framer, header-only read: the payload and the checksum line are
\* skipped without being decoded.
LibReadHeader(f, p, fmt) ==
    IF p > Len(f) THEN Outcome("EOFError", p, NoHeader, <<>>)
    ELSE IF f[p].tag \notin WidTags(fmt)
    THEN Outcome("FormatError", p, NoHeader, <<>>)
    ELSE
      LET n == f[p].n
          h == [wid |-> f[p].tag, npts |-> n]
          q == p + n + 1
      IN  IF q > Len(f) THEN Outcome("TruncationError", Len(f) + 1, h, <<>>)
          ELSE Outcome("Complete", q + 1, h, <<>>)

\* Detection of the GSE2 variant on an open handle: passes on the WID2 tag
\* and raises on anything else.
LibIsGse2(f, p) ==
    IF p <= Len(f) /\ f[p].tag = "WID2" THEN "ok" ELSE "TypeError"

\* Where the detection leaves the handle: it peeks, the handle does not move.
LibIsGse2Pos(f, p) == p

\* Block Framer, write one block: refuses samples outside the signed 32-bit
\* range before any byte is emitted; with inplace the caller's buffer is
\* overwritten by the compression.
LibWrite(data, inplace) ==
    IF \E i \in 1..Len(data) : ~InInt32(data[i])
    THEN [outcome |-> "RangeError", lines |-> <<>>, buffer |-> data]
    ELSE [outcome |-> "ok",
          lines |-> BlockLines("WID2", data, Checksum(data)),
          buffer |-> IF inplace
                     THEN [i \in 1..Len(data) |-> Wrap32(Compress(data)[i])]
                     ELSE data]

\* ------------------------------------------------------------- inputs
HeaderTags == {"WID2", "WID1", "XW01"}
SampleSeqs == {<<>>, <<3>>, <<3, -5>>}

\* A block as it was put into the file: its tag, its samples, and whether
\* its checksum line records the checksum of the samples.
BlockSpecs == [wid : HeaderTags, data : SampleSeqs, chkok : BOOLEAN]

RecordedChk(b) == IF b.chkok THEN Checksum(b.data) ELSE Checksum(b.data) + 1

RECURSIVE ConcatBlocks(_)
ConcatBlocks(bs) ==
    IF bs = <<>> THEN <<>>
    ELSE BlockLines(bs[1].wid, bs[1].data, RecordedChk(bs[1]))
         \o ConcatBlocks(Tail(bs))

\* The file: the blocks concatenated, its last c lines cut off.
FileOf(bs, c) ==
    LET all == ConcatBlocks(bs) IN SubSeq(all, 1, Len(all) - c)

SeqsUpTo(S, k) == UNION {[1..m -> S] : m \in 0..k}

\* A cut ends the stream inside the last block.
Cuts(bs) == IF bs = <<>> THEN {0} ELSE 0..(Len(bs[Len(bs)].data) + 1)

\* The arrays a trace can carry: int32 arrays hold int32 values only.
Int32Arrays ==
    [dtype : {"int32"}, contig : BOOLEAN,
     data : {<<>>, <<3>>, <<3, -5>>, <<IntMax, IntMin>>}]
OtherArrays ==
    [dtype : {"int64"}, contig : {TRUE},
     data : {<<3>>, <<IntMax + 1>>, <<3, IntMin - 1>>}]
    \cup [dtype : {"float64"}, contig : {TRUE}, data : {<<3>>}]
TraceSpecs == Int32Arrays \cup OtherArrays

VARIABLES
    op,        \* which entry point the caller uses: "read" or "write"
    blocks,    \* the blocks the file was made of
    cut,       \* lines missing at the end of the file
    file,      \* the lines of the file
    fmt,       \* "GSE2": isGSE2/readGSE2, "GSE1": isGSE1/readGSE1
    headonly,  \* argument of the read
    verify,    \* argument verify_chksum of the read
    pc,        \* position of the read: idle, loop, returned, raised
    fpos,      \* position of the read's file handle (1-based)
    traces,    \* the local list traces
    result,    \* what the caller of the read receives
    err,       \* the exception that left the read
    attempts,  \* calls of the block read made so far
    detected,  \* answers of the format detection calls made so far
    dpos,      \* position of the detection's file handle when it was closed
    stream,    \* the caller's stream handed to writeGSE2
    orig,      \* the stream as it was before the write
    inplaceArg,\* argument inplace of the write: "default", "True", "False"
    wpc,       \* position of the write: idle, check, write, done, raised
    widx,      \* index of the trace the write loop is at
    out        \* the lines of the output file

rvars == <<blocks, cut, file, fmt, headonly, verify, pc, fpos, traces, result,
           err, attempts, detected, dpos>>

wvars == <<stream, orig, inplaceArg, wpc, widx, out>>

VARIABLES
    cwd,       \* the working directory of the process
    cwd0,      \* the working directory before run_tests was called
    rootdir,   \* argument rootdir of run_tests, "None" when not given
    here,      \* the local here of _temporary_cd
    tpc,       \* position of run_tests: idle, inblock, returned, raised, nodir
    results    \* what run_tests returns

tvars == <<cwd, cwd0, rootdir, here, tpc, results>>

vars == <<op, rvars, wvars, tvars>>

\* The directories of the process, and one that does not exist.
Dirs == {"/home", "/obspy"}
MissingDir == "/missing"

NoResult == [returned |-> FALSE, stream |-> <<>>]

\* Mutant: the header is not handed to the trace.
TraceNoHeader(h, d) == [header |-> [wid |-> "", npts |-> 0], data |-> d]

\* Trace(header=header, data=data); Trace(header=header) has no samples.
Trace(h, d) == [header |-> h, data |-> d]

\* Stream(traces=traces)
Stream(ts) == [returned |-> TRUE, stream |-> ts]

\* open(filename, 'rb'): a fresh handle at the first line.
OpenRB == 1

InitRead ==
    /\ op = "read"
    /\ blocks \in SeqsUpTo(BlockSpecs, MaxBlocks)
    /\ cut \in Cuts(blocks)
    /\ file = FileOf(blocks, cut)
    /\ fmt \in {"GSE2", "GSE1"}
    /\ headonly \in BOOLEAN
    /\ verify \in BOOLEAN
    /\ stream = <<>> /\ orig = <<>> /\ inplaceArg = "default"

InitWrite ==
    /\ op = "write"
    /\ stream \in SeqsUpTo(TraceSpecs, MaxTraces)
    /\ orig = stream
    /\ inplaceArg \in {"default", "True", "False"}
    /\ blocks = <<>> /\ cut = 0 /\ file = <<>> /\ fmt = "GSE2"
    /\ headonly = FALSE /\ verify = TRUE

\* No call of run_tests is made.
NoRunTests ==
    /\ cwd = "/home" /\ cwd0 = cwd /\ rootdir = "None"

InitRunTests ==
    /\ op = "runtests"
    /\ cwd \in Dirs
    /\ cwd0 = cwd
    /\ rootdir \in Dirs \cup {MissingDir, "None"}
    /\ blocks = <<>> /\ cut = 0 /\ file = <<>> /\ fmt = "GSE2"
    /\ headonly = FALSE /\ verify = TRUE
    /\ stream = <<>> /\ orig = <<>> /\ inplaceArg = "default"

Init ==
    /\ \/ InitRead /\ NoRunTests
       \/ InitWrite /\ NoRunTests
       \/ InitRunTests
    /\ here = "unset"
    /\ tpc = "idle"
    /\ results = "none"
    /\ pc = "idle"
    /\ fpos = 1
    /\ traces = <<>>
    /\ result = NoResult
    /\ err = "none"
    /\ attempts = 0
    /\ detected = <<>>
    /\ dpos = 1
    /\ wpc = "idle"
    /\ widx = 1
    /\ out = <<>>

\* ------------------------------------------------------------- detection
\* f.readline() of isGSE1: the next line, b'' at end of file.
ReadLine(f, p) == IF p <= Len(f) THEN f[p] ELSE [tag |-> "", n |-> 0]

\* Mutant: the second tag is forgotten.
StartsWithWID1Only(line) == line.tag = "WID1"

\* data.startswith(b'WID1') or data.startswith(b'XW01')
StartsWithGSE1(line) == line.tag = "WID1" \/ line.tag = "XW01"

\* try: libgse2.isGse2(f) / except: return False / return True
IsGSE2Answer(f) == LibIsGse2(f, OpenRB) = "ok"

isGSE2 ==
    /\ op = "read" /\ pc = "idle" /\ detected = <<>> /\ fmt = "GSE2"
    /\ detected' = <<IsGSE2Answer(file)>>
    /\ dpos' = LibIsGse2Pos(file, OpenRB)
    /\ UNCHANGED <<op, blocks, cut, file, fmt, headonly, verify, pc, fpos,
                   traces, result, err, attempts, wvars, tvars>>

isGSE1 ==
    /\ op = "read" /\ pc = "idle" /\ detected = <<>> /\ fmt = "GSE1"
    /\ detected' = <<StartsWithGSE1(ReadLine(file, OpenRB))>>
    /\ dpos' = IF OpenRB <= Len(file) THEN OpenRB + 1 ELSE OpenRB
    /\ UNCHANGED <<op, blocks, cut, file, fmt, headonly, verify, pc, fpos,
                   traces, result, err, attempts, wvars, tvars>>

\* ------------------------------------------------------------- read
\* traces = []; with open(filename, 'rb') as f:
ReadOpen ==
    /\ op = "read" /\ pc = "idle"
    /\ pc' = "loop"
    /\ fpos' = OpenRB
    /\ traces' = <<>>
    /\ UNCHANGED <<op, blocks, cut, file, fmt, headonly, verify, result, err,
                   attempts, detected, dpos, wvars, tvars>>

\* Mutant: the full read never asks for verification.
VerifyArgDropped(v) == FALSE

\* The value of verify_chksum the full read hands to the block read.
VerifyArg(v) == v

\* The call made by one iteration of the loop.
ReadCall ==
    IF headonly THEN LibReadHeader(file, fpos, fmt)
    ELSE LibRead(file, fpos, fmt, VerifyArg(verify))

\* Mutant: traces.insert(0, Trace(...))
AppendTraceFront(ts, r) == <<Trace(r.header, r.data)>> \o ts

\* traces.append(Trace(...))
AppendTrace(ts, r) == Append(ts, Trace(r.header, r.data))

\* Mutant: a bare except clause.
CaughtAll(o) == TRUE

\* Mutant: except (EOFError, IOError), truncation among them.
CaughtTruncation(o) == o \in {"EOFError", "TruncationError"}

\* Mutant: the checksum error is caught with the end of the stream.
CaughtChecksum(o) == o \in {"EOFError", "ChecksumMismatchError"}

\* The exceptions the loop's except clause catches.
Caught(o) == o = "EOFError"

\* One iteration that appends a trace.
ReadAppend ==
    /\ op = "read" /\ pc = "loop"
    /\ ReadCall.outcome = "Complete"
    /\ traces' = AppendTrace(traces, ReadCall)
    /\ fpos' = ReadCall.pos
    /\ attempts' = attempts + 1
    /\ UNCHANGED <<op, blocks, cut, file, fmt, headonly, verify, pc, result,
                   err, detected, dpos, wvars, tvars>>

\* Mutant: except EOFError: pass, the loop goes on at the end of the stream.
ReadBreakPass ==
    /\ op = "read" /\ pc = "loop"
    /\ ReadCall.outcome # "Complete" /\ Caught(ReadCall.outcome)
    /\ attempts' = attempts + 1
    /\ UNCHANGED <<op, blocks, cut, file, fmt, headonly, verify, pc, fpos,
                   traces, result, err, detected, dpos, wvars, tvars>>

\* except EOFError: break; return Stream(traces=traces)
ReadBreak ==
    /\ op = "read" /\ pc = "loop"
    /\ ReadCall.outcome # "Complete" /\ Caught(ReadCall.outcome)
    /\ pc' = "returned"
    /\ result' = Stream(traces)
    /\ fpos' = ReadCall.pos
    /\ attempts' = attempts + 1
    /\ UNCHANGED <<op, blocks, cut, file, fmt, headonly, verify, traces, err,
                   detected, dpos, wvars, tvars>>

\* Any other exception leaves the function: nothing is returned.
ReadRaise ==
    /\ op = "read" /\ pc = "loop"
    /\ ReadCall.outcome # "Complete" /\ ~Caught(ReadCall.outcome)
    /\ pc' = "raised"
    /\ err' = ReadCall.outcome
    /\ result' = NoResult
    /\ fpos' = ReadCall.pos
    /\ attempts' = attempts + 1
    /\ UNCHANGED <<op, blocks, cut, file, fmt, headonly, verify, traces,
                   detected, dpos, wvars, tvars>>

\* ------------------------------------------------------------- write
\* Mutant: inplace=True in the signature.
InplaceDefaultOn == TRUE

\* def writeGSE2(stream, filename, inplace=False, **kwargs)
InplaceDefault == FALSE

Inplace == IF inplaceArg = "default" THEN InplaceDefault ELSE inplaceArg = "True"

\* Mutant: for trace in reversed(stream)
TraceIndexReversed(s, k) == Len(s) + 1 - k

\* for trace in stream: the k-th trace of the iteration.
TraceIndex(s, k) == k

\* Mutant: any integer type passes the test.
DtypeAnyInt(t) == t.dtype \in {"int32", "int64"}

\* trace.data.dtype.name == dt.name
DtypeOK(t) == t.dtype = "int32"

\* np.require(trace.data, dt, ['C_CONTIGUOUS']): same values, contiguous.
Require(t) == [t EXCEPT !.contig = TRUE]

\* with open(filename, 'wb') as f:
WriteOpen ==
    /\ op = "write" /\ wpc = "idle"
    /\ wpc' = "check"
    /\ widx' = 1
    /\ out' = <<>>
    /\ UNCHANGED <<op, tvars, rvars, stream, orig, inplaceArg>>

\* The type test passes: trace.data = np.require(...)
WriteCheck ==
    /\ op = "write" /\ wpc = "check" /\ widx <= Len(stream)
    /\ LET j == TraceIndex(stream, widx) IN
         /\ DtypeOK(stream[j])
         /\ stream' = [stream EXCEPT ![j] = Require(stream[j])]
    /\ wpc' = "write"
    /\ UNCHANGED <<op, tvars, rvars, orig, inplaceArg, widx, out>>

\* The type test fails: raise Exception(msg)
WriteTypeError ==
    /\ op = "write" /\ wpc = "check" /\ widx <= Len(stream)
    /\ ~DtypeOK(stream[TraceIndex(stream, widx)])
    /\ wpc' = "raised"
    /\ UNCHANGED <<op, tvars, rvars, stream, orig, inplaceArg, widx, out>>

\* libgse2.write(trace.stats, trace.data, f, inplace)
WriteBlock ==
    /\ op = "write" /\ wpc = "write"
    /\ LET j == TraceIndex(stream, widx)
           w == LibWrite(stream[j].data, Inplace)
       IN  /\ out' = out \o w.lines
           /\ stream' = [stream EXCEPT ![j].data = w.buffer]
           /\ wpc' = IF w.outcome = "ok" THEN "check" ELSE "raised"
           /\ widx' = IF w.outcome = "ok" THEN widx + 1 ELSE widx
    /\ UNCHANGED <<op, tvars, rvars, orig, inplaceArg>>

\* The loop is exhausted and the file is closed.
WriteDone ==
    /\ op = "write" /\ wpc = "check" /\ widx > Len(stream)
    /\ wpc' = "done"
    /\ UNCHANGED <<op, tvars, rvars, stream, orig, inplaceArg, widx, out>>

\* ------------------------------------------------------------- run_tests
\* rootdir or os.getcwd()
CdTarget == IF rootdir = "None" THEN cwd ELSE rootdir

\* What pytest.main can hand back: the exit codes of pytest, OK (0),
\* TESTS_FAILED (1), INTERRUPTED (2), INTERNAL_ERROR (3), USAGE_ERROR (4) and
\* NO_TESTS_COLLECTED (5); run_tests returns the code as it got it.
ExitCodes == 0..5

\* _temporary_cd up to its yield: here = os.getcwd(); os.chdir(path)
CdEnter ==
    /\ op = "runtests" /\ tpc = "idle"
    /\ CdTarget # MissingDir
    /\ here' = cwd
    /\ cwd' = CdTarget
    /\ tpc' = "inblock"
    /\ UNCHANGED <<op, rvars, wvars, cwd0, rootdir, results>>

\* os.chdir(path) raises: the block is not entered.
CdEnterFails ==
    /\ op = "runtests" /\ tpc = "idle"
    /\ CdTarget = MissingDir
    /\ here' = cwd
    /\ tpc' = "nodir"
    /\ UNCHANGED <<op, rvars, wvars, cwd, cwd0, rootdir, results>>

\* pytest.main returns: the generator resumes after its yield,
\* os.chdir(here), and run_tests returns results.
PytestReturns ==
    /\ op = "runtests" /\ tpc = "inblock"
    /\ \E code \in ExitCodes : results' = code
    /\ cwd' = here
    /\ tpc' = "returned"
    /\ UNCHANGED <<op, rvars, wvars, cwd0, rootdir, here>>

\* pytest.main raises: the exception is thrown into the generator at its
\* yield, nothing catches it there, and the line after the yield is not
\* run.
PytestRaises ==
    /\ op = "runtests" /\ tpc = "inblock"
    /\ tpc' = "raised"
    /\ UNCHANGED <<op, rvars, wvars, cwd, cwd0, rootdir, here, results>>

Next ==
    \/ CdEnter
    \/ CdEnterFails
    \/ PytestReturns
    \/ PytestRaises
    \/ isGSE2
    \/ isGSE1
    \/ ReadOpen
    \/ ReadAppend
    \/ ReadBreak
    \/ ReadRaise
    \/ WriteOpen
    \/ WriteCheck
    \/ WriteTypeError
    \/ WriteBlock
    \/ WriteDone

Spec == Init /\ [][Next]_vars

\* One iteration of the read loop: the body of while True runs to its end
\* without waiting on anything, so an iteration that can run does run.
ReadIteration == ReadAppend \/ ReadBreak \/ ReadRaise

FairSpec == Spec /\ WF_vars(ReadIteration)

\* ------------------------------------------------------------- reference
\* What the file holds, told from the blocks it was made of.
Reading == op = "read"
Writing == op = "write"

NBlocks == Len(blocks)

TagOK(i) == blocks[i].wid \in WidTags(fmt)

\* The stream ends inside block i.
TruncatedAt(i) == i = NBlocks /\ cut > 0

BlockHeader(i) == [wid |-> blocks[i].wid, npts |-> Len(blocks[i].data)]

\* The trace a read in the current mode makes of block i.
TraceOfBlock(i) ==
    [header |-> BlockHeader(i),
     data |-> IF headonly THEN <<>> ELSE blocks[i].data]

TracesOfBlocks(k) == [i \in 1..k |-> TraceOfBlock(i)]

\* The position of the first line after block k.
BoundaryAfter(k) == Len(ConcatBlocks(SubSeq(blocks, 1, k))) + 1

\* Block i makes a read in the current mode fail.
Fails(i) ==
    \/ ~TagOK(i)
    \/ TruncatedAt(i)
    \/ verify /\ ~headonly /\ ~blocks[i].chkok

HasFail == \E i \in 1..NBlocks : Fails(i)

FirstFail == CHOOSE i \in 1..NBlocks : Fails(i) /\ \A j \in 1..(i - 1) : ~Fails(j)

\* Every block is whole, of the reader's variant, with a correct checksum.
ValidContainer ==
    cut = 0 /\ \A i \in 1..NBlocks : TagOK(i) /\ blocks[i].chkok

\* ------------------------------------------------------------- claims

\* C1: a container of K valid blocks, K >= 0, is read into exactly K traces,
\* the i-th trace being the i-th block, the read raises nothing and returns
\* with the stream at end-of-stream; for K = 0 the stream returned is empty.
C1_KValidBlocks ==
    (Reading /\ ValidContainer) =>
        /\ pc # "raised"
        /\ Len(traces) <= NBlocks
        /\ traces = TracesOfBlocks(Len(traces))
        /\ pc = "returned" =>
              /\ result = Stream(TracesOfBlocks(NBlocks))
              /\ fpos = Len(file) + 1

C1_Witness ==
    /\ Reading /\ ValidContainer /\ pc = "returned"
    /\ NBlocks >= 2 /\ blocks[1] # blocks[2]
    /\ Len(result.stream) = NBlocks

\* C2 as stated: with verification requested, in every read mode, no block
\* whose recorded checksum disagrees with its samples is appended.
C2_EveryMode ==
    (Reading /\ verify) => \A i \in 1..Len(traces) : blocks[i].chkok

\* C2 amended: with verification requested, a full read (headonly false)
\* never appends a block whose recorded checksum disagrees with its samples,
\* and never returns a stream for a file that holds such a block.
C2_FullRead ==
    (Reading /\ verify /\ ~headonly) =>
        /\ \A i \in 1..Len(traces) : blocks[i].chkok
        /\ pc = "returned" => \A i \in 1..NBlocks : blocks[i].chkok

C2_Witness ==
    /\ Reading /\ verify /\ ~headonly
    /\ pc = "raised" /\ err = "ChecksumMismatchError"
    /\ Len(traces) >= 1

\* C3 as stated: when block N fails, the N-1 traces decoded before it reach
\* the caller of the read.
C3_PartialDelivered ==
    (Reading /\ pc = "raised" /\ traces # <<>>) =>
        result.returned /\ result.stream = traces

\* C3 amended: when block N fails, the error leaves the read, no stream is
\* returned, and the N-1 traces decoded before it, each equal to its block,
\* are held only by the local list of the read.
C3_ErrorNoStream ==
    (Reading /\ HasFail) =>
        /\ pc # "returned"
        /\ pc = "raised" =>
              /\ err # "none"
              /\ result = NoResult
              /\ traces = TracesOfBlocks(FirstFail - 1)

C3_Witness ==
    /\ Reading /\ HasFail /\ pc = "raised"
    /\ FirstFail = 2 /\ Len(traces) = 1

\* C4: a stream that ends inside block N, the blocks before it sound, makes
\* the read fail with a truncation error at block N and not earlier; a read
\* returns only when the end of the stream is at a block boundary.
SoundBefore(n) == \A j \in 1..(n - 1) : ~Fails(j)

C4_Truncation ==
    Reading =>
        /\ (NBlocks >= 1 /\ TruncatedAt(NBlocks) /\ TagOK(NBlocks)
              /\ SoundBefore(NBlocks)) =>
              /\ pc # "returned"
              /\ attempts <= NBlocks
              /\ pc = "raised" =>
                    /\ err = "TruncationError"
                    /\ attempts = NBlocks
                    /\ Len(traces) = NBlocks - 1
        /\ pc = "returned" =>
              /\ cut = 0
              /\ fpos = BoundaryAfter(NBlocks)
              /\ Len(result.stream) = NBlocks

C4_Witness ==
    /\ Reading /\ NBlocks = 2 /\ cut = 1 /\ blocks[2].data # <<>>
    /\ pc = "raised" /\ err = "TruncationError" /\ Len(traces) = 1

\* Block n is the first unsound block and only its checksum line is wrong.
CorruptChecksumAt(n) ==
    /\ n \in 1..NBlocks
    /\ TagOK(n) /\ ~TruncatedAt(n) /\ ~blocks[n].chkok
    /\ \A j \in 1..(n - 1) : TagOK(j) /\ blocks[j].chkok

FailsAtChecksum(n) ==
    /\ pc # "returned"
    /\ attempts <= n
    /\ Len(traces) <= n - 1
    /\ pc = "raised" =>
          /\ err = "ChecksumMismatchError"
          /\ attempts = n
          /\ traces = TracesOfBlocks(n - 1)

\* C5 as stated: with verification enabled, whatever the read mode, the
\* read of a container whose Nth block has a corrupted checksum line fails
\* at block N.
C5_AnyMode ==
    (Reading /\ verify) =>
        \A n \in 1..NBlocks : CorruptChecksumAt(n) => FailsAtChecksum(n)

\* C5 amended: in a full read (headonly false) with verification enabled,
\* when the Nth block has a corrupted checksum line the first N-1 block
\* reads succeed, the Nth fails with a checksum-mismatch error and no
\* further block read is made.
C5_FullRead ==
    (Reading /\ verify /\ ~headonly) =>
        \A n \in 1..NBlocks : CorruptChecksumAt(n) => FailsAtChecksum(n)

C5_Witness ==
    /\ Reading /\ verify /\ ~headonly
    /\ NBlocks = 2 /\ CorruptChecksumAt(1)
    /\ pc = "raised" /\ attempts = 1 /\ traces = <<>>

\* C6: wherever a full read of a block completes, the header-only read of
\* the block completes at the same position with the same header; a
\* header-only read of a container the full read reads into K traces yields
\* K traces with the same headers in the same order.
FullReadSound == \A i \in 1..NBlocks : TagOK(i) /\ ~TruncatedAt(i)

C6_HeaderOnly ==
    Reading =>
        /\ pc = "loop" =>
              /\ fpos = BoundaryAfter(Len(traces))
              /\ LibRead(file, fpos, fmt, FALSE).outcome = "Complete" =>
                    /\ LibReadHeader(file, fpos, fmt).outcome = "Complete"
                    /\ LibReadHeader(file, fpos, fmt).pos
                         = LibRead(file, fpos, fmt, FALSE).pos
                    /\ LibReadHeader(file, fpos, fmt).header
                         = LibRead(file, fpos, fmt, FALSE).header
        /\ (headonly /\ FullReadSound /\ pc = "returned") =>
              /\ Len(result.stream) = NBlocks
              /\ \A i \in 1..NBlocks :
                    /\ result.stream[i].header = BlockHeader(i)
                    /\ result.stream[i].data = <<>>

C6_Witness ==
    /\ Reading /\ headonly /\ FullReadSound /\ pc = "returned"
    /\ NBlocks = 2 /\ blocks[1].data # blocks[2].data
    /\ blocks[1].data # <<>>

\* The lines the first k traces of the stream serialize to.
RECURSIVE ExpectedOut(_)
ExpectedOut(k) ==
    IF k = 0 THEN <<>>
    ELSE ExpectedOut(k - 1)
         \o BlockLines("WID2", orig[k].data, Checksum(orig[k].data))

\* The samples of trace i cannot be encoded as signed 32-bit integers.
Unencodable(i) ==
    \/ orig[i].dtype # "int32"
    \/ \E k \in 1..Len(orig[i].data) : ~InInt32(orig[i].data[k])

FirstUnencodable ==
    CHOOSE i \in 1..Len(orig) :
        Unencodable(i) /\ \A j \in 1..(i - 1) : ~Unencodable(j)

\* C7: when a trace cannot be encoded as signed 32-bit integers the write
\* raises, and the output holds exactly the blocks of the traces before it.
C7_NothingForBadTrace ==
    (Writing /\ \E i \in 1..Len(orig) : Unencodable(i)) =>
        /\ wpc # "done"
        /\ \E k \in 0..(FirstUnencodable - 1) : out = ExpectedOut(k)
        /\ wpc = "raised" =>
              /\ widx = FirstUnencodable
              /\ out = ExpectedOut(FirstUnencodable - 1)

C7_Witness ==
    /\ Writing /\ wpc = "raised" /\ widx = 2
    /\ \E k \in 1..Len(orig[2].data) : ~InInt32(orig[2].data[k])
    /\ out # <<>>

\* C8: inplace is off unless the caller sets it; after and during a write
\* without inplace = True every trace holds the sample values it held
\* before the write.
C8_InplaceOptIn ==
    (Writing /\ inplaceArg # "True") =>
        /\ Len(stream) = Len(orig)
        /\ \A i \in 1..Len(stream) : stream[i].data = orig[i].data

C8_Witness ==
    /\ Writing /\ inplaceArg = "default" /\ wpc = "done"
    /\ Len(stream) >= 1 /\ stream[1].data = <<3, -5>>
    /\ out = ExpectedOut(Len(stream))

\* C9: isGSE1 answers True exactly when the first line begins with WID1 or
\* XW01, isGSE2 exactly when the first line carries the WID2 tag, and a read
\* that follows a detection starts at the first line of the file.
FirstTagIn(tags) == NBlocks >= 1 /\ blocks[1].wid \in tags

C9_Detection ==
    Reading =>
        /\ (detected # <<>> /\ fmt = "GSE1") =>
              (detected[1] <=> FirstTagIn({"WID1", "XW01"}))
        /\ (detected # <<>> /\ fmt = "GSE2") =>
              (detected[1] <=> FirstTagIn({"WID2"}))
        /\ (pc = "loop" /\ attempts = 0) => fpos = 1
        /\ (detected # <<>> /\ detected[1] /\ attempts >= 1
              /\ pc \in {"loop", "returned"}) =>
              (traces # <<>> /\ traces[1].header = BlockHeader(1))

C9_Witness ==
    /\ Reading /\ fmt = "GSE1" /\ detected = <<TRUE>>
    /\ blocks[1].wid = "XW01"
    /\ pc = "returned" /\ Len(traces) = 2

\* C10: the traces are serialized strictly in stream order: the type test
\* of trace i is made when exactly the blocks of the traces before it are in
\* the output, its block is written whole after the test has passed, and a
\* successful write leaves the concatenation of the K blocks in order.
C10_StreamOrder ==
    Writing =>
        /\ wpc = "check" => out = ExpectedOut(widx - 1)
        /\ wpc = "write" =>
              /\ out = ExpectedOut(widx - 1)
              /\ orig[widx].dtype = "int32"
        /\ wpc = "done" => out = ExpectedOut(Len(orig))

C10_Witness ==
    /\ Writing /\ wpc = "done" /\ Len(orig) = 2
    /\ orig[1].data # orig[2].data
    /\ out = ExpectedOut(2)

\* C11: the read loop terminates on every finite stream: an iteration that
\* stays in the loop has consumed at least one line and appended exactly one
\* trace, every other iteration leaves the loop by end-of-stream or by an
\* error, the handle never passes the end of the stream and the traces never
\* outnumber its lines, and inside the loop an iteration can always run: the
\* loop makes at most Len(file) + 1 iterations.
C11_LoopTerminates ==
    /\ [][(pc = "loop" /\ pc' = "loop") =>
            (fpos' > fpos /\ Len(traces') = Len(traces) + 1)]_vars
    /\ [][(pc = "loop" /\ pc' # "loop") =>
            (pc' \in {"returned", "raised"} /\ traces' = traces)]_vars
    /\ [](Reading =>
            /\ Len(traces) <= Len(file)
            /\ fpos <= Len(file) + 1
            /\ attempts <= Len(file) + 1)
    /\ []((pc = "loop") => ENABLED ReadIteration)

\* The same under fairness of the loop iteration (FairSpec): a loop that was
\* entered is left.
C11_LoopIsLeft == (pc = "loop") ~> (pc \in {"returned", "raised"})

C11_Witness ==
    /\ Reading /\ pc = "returned"
    /\ Len(result.stream) = 2 /\ attempts = 3
    /\ Len(result.stream) <= Len(file)

\* C12: on every exit of the _temporary_cd block of run_tests, whether
\* pytest returns or raises, the working directory is the one the process
\* had before the call.
C12_CwdRestored ==
    (op = "runtests" /\ tpc \in {"returned", "raised"}) => cwd = cwd0

====
